---------------------------- MODULE Spec2Model ----------------------------
(***************************************************************************)
(* Model of the RevOps MCP server (mcp_server.py) and the vendor wrappers  *)
(* it exposes (gmail_functions.py, gcal_functions.py,                      *)
(* salesforce_functions.py).                                               *)
(*                                                                         *)
(* A Python str is a sequence of characters, each a one-character string   *)
(* ("U+00E9" stands for the single character e-acute); Python's None is    *)
(* the one-element sequence None, whose element is no character.           *)
(***************************************************************************)
EXTENDS Integers, Sequences, FiniteSets, TLC

VARIABLES api_key, pc, route, auth, presented, verdict, tool, args, handler,
          clients, calls, response, last_gate

vars == <<api_key, pc, route, auth, presented, verdict, tool, args, handler,
          clients, calls, response, last_gate>>

(***************************************************************************)
(* Python values and str methods                                           *)
(***************************************************************************)
None == <<"None">>

\* str.isspace(): the characters str.strip() and str.split() treat as blank
Whitespace == {" ", "\t"}

\* characters outside ASCII (what secrets.compare_digest refuses in a str)
NonAscii == {"U+00E9"}

UpperChars == <<"A","B","C","D","E","F","G","H","I","J","K","L","M",
                "N","O","P","Q","R","S","T","U","V","W","X","Y","Z">>
LowerChars == <<"a","b","c","d","e","f","g","h","i","j","k","l","m",
                "n","o","p","q","r","s","t","u","v","w","x","y","z">>

\* str.lower() on one character
LowerChar(c) ==
    IF \E i \in 1..Len(UpperChars) : UpperChars[i] = c
    THEN LowerChars[CHOOSE i \in 1..Len(UpperChars) : UpperChars[i] = c]
    ELSE c

\* str.lower()
Lower(s) == [i \in 1..Len(s) |-> LowerChar(s[i])]

RECURSIVE LStrip(_)
LStrip(s) ==
    IF s = <<>> THEN <<>>
    ELSE IF Head(s) \in Whitespace THEN LStrip(Tail(s)) ELSE s

RECURSIVE RStrip(_)
RStrip(s) ==
    IF s = <<>> THEN <<>>
    ELSE IF s[Len(s)] \in Whitespace THEN RStrip(SubSeq(s, 1, Len(s) - 1))
    ELSE s

\* str.strip() with no argument
Strip(s) == RStrip(LStrip(s))

\* str.split() with no argument: the maximal runs of non-blank characters.
\* cur is the word being read, acc the words read so far.
RECURSIVE SplitFrom(_, _, _)
SplitFrom(s, cur, acc) ==
    IF s = <<>>
    THEN IF cur = <<>> THEN acc ELSE Append(acc, cur)
    ELSE IF Head(s) \in Whitespace
         THEN SplitFrom(Tail(s), <<>>,
                        IF cur = <<>> THEN acc ELSE Append(acc, cur))
         ELSE SplitFrom(Tail(s), Append(cur, Head(s)), acc)

Split(s) == SplitFrom(s, <<>>, <<>>)

\* " ".join-style concatenation of words with a separator
RECURSIVE Join(_, _)
Join(ws, gap) ==
    IF ws = <<>> THEN <<>>
    ELSE IF Len(ws) = 1 THEN ws[1]
    ELSE ws[1] \o gap \o Join(Tail(ws), gap)

\* bool(x) of a str or None
Truthy(s) == s # None /\ s # <<>>

IsAscii(s) == \A i \in 1..Len(s) : s[i] \notin NonAscii

(***************************************************************************)
(* StaticApiKeyAuth                                                        *)
(***************************************************************************)
\* ("bearer", "token", "apikey")
Schemes == { <<"b","e","a","r","e","r">>,
             <<"t","o","k","e","n">>,
             <<"a","p","i","k","e","y">> }

NormalizeKeepScheme(token) ==
    IF ~Truthy(token) THEN <<>> ELSE Strip(token)

NormalizeLastWord(token) ==
    IF ~Truthy(token) THEN <<>>
    ELSE LET parts == Split(Strip(token))
         IN  IF Len(parts) >= 2 THEN parts[Len(parts)] ELSE Strip(token)

NormalizeStripAnyPrefix(token) ==
    IF ~Truthy(token) THEN <<>>
    ELSE LET parts == Split(Strip(token))
         IN  IF Len(parts) >= 2 /\ Lower(parts[1]) \in Schemes
             THEN Join(Tail(parts), <<" ">>)
             ELSE Strip(token)

NormalizeUntrimmed(token) ==
    IF ~Truthy(token) THEN <<>>
    ELSE LET parts == Split(Strip(token))
         IN  IF Len(parts) = 2 /\ Lower(parts[1]) \in Schemes
             THEN parts[2]
             ELSE token

_normalize(token) ==
    IF ~Truthy(token) THEN <<>>
    ELSE LET parts == Split(Strip(token))
         IN  IF Len(parts) = 2 /\ Lower(parts[1]) \in Schemes
             THEN parts[2]
             ELSE Strip(token)

\* secrets.compare_digest on two str: "TypeError" when either holds a
\* non-ASCII character, else whether they are equal
compare_digest(a, b) ==
    IF ~IsAscii(a) \/ ~IsAscii(b) THEN "TypeError"
    ELSE IF a = b THEN "True" ELSE "False"

\* verify_token's outcome for a presented candidate: `and` short-circuits,
\* so compare_digest runs only when both operands are non-empty
verify_token(token, key) ==
    LET p == _normalize(token)
    IN  IF ~Truthy(p) \/ ~Truthy(key) THEN "None"
        ELSE LET c == compare_digest(p, key)
             IN  IF c = "TypeError" THEN "TypeError"
                 ELSE IF c = "True" THEN "AccessToken" ELSE "None"


(***************************************************************************)
(* Inputs: configured secrets and Authorization values                     *)
(***************************************************************************)
MaxWords == 3

wBearer == <<"B","e","a","r","e","r">>
wTOKEN  == <<"T","O","K","E","N">>
wApiKey == <<"a","p","i","K","e","y">>
wBasic  == <<"B","a","s","i","c">>
wAbc    == <<"a","b","c">>
wDef    == <<"d","e","f">>
wCle    == <<"c","l","U+00E9">>

Words == {wBearer, wTOKEN, wApiKey, wBasic, wAbc, wDef, wCle}

WordLists == UNION { [1..n -> Words] : n \in 0..MaxWords }

Gaps  == { <<" ">>, <<"\t", " ">> }
Pads  == { <<>>, <<" ">> }

\* the values the Authorization header of a request can carry
Tokens ==
    {None} \cup
    { lead \o Join(ws, gap) \o trail :
        ws \in WordLists, gap \in Gaps, lead \in Pads, trail \in Pads }

\* the values os.getenv("MCP_API_KEY", "") can give
Secrets == { <<>>, wAbc, wCle, wAbc \o <<" ">> \o wDef }

(***************************************************************************)
(* Tool registry and tool arguments                                        *)
(***************************************************************************)
Registry == { "send_email", "get_calendar_free_busy", "create_calendar_event",
              "update_calendar_event", "delete_calendar_event",
              "find_salesforce_contact_or_lead", "create_salesforce_lead",
              "log_salesforce_task" }

\* operation names a tools/call request can carry
ToolNames == Registry \cup { "send_mail", "drop_database" }

NoHandler == "none"

LookupWithFallback(name) ==
    IF name \in Registry THEN name ELSE "send_email"

\* the handler registered under a name, if any
Lookup(name) == IF name \in Registry THEN name ELSE NoHandler

(***************************************************************************)
(* What one tool invocation leaves behind: the client handles it built,    *)
(* the vendor calls it made (in order) and what the caller gets back       *)
(***************************************************************************)
NoArgs == [none |-> TRUE]
NoResponse == [status |-> "none", value |-> [none |-> TRUE]]

\* a handler returned value
Result(value) == [status |-> "result", value |-> value]

\* an exception left the handler: the caller gets the failure, no result
Raised(exc) == [status |-> "raised", value |-> [exc |-> exc]]

SharedClientHandle(kind, ok) == <<>>

\* one construction of a vendor client handle (credentials + client object)
ClientHandle(kind, ok) == << [kind |-> kind, ok |-> ok] >>

AttemptWithRetry(op, payload, ok) ==
    IF ok THEN << [op |-> op, payload |-> payload, ok |-> TRUE] >>
    ELSE << [op |-> op, payload |-> payload, ok |-> FALSE],
            [op |-> op, payload |-> payload, ok |-> FALSE] >>

\* one vendor API call, issued once whatever its outcome
Attempt(op, payload, ok) == << [op |-> op, payload |-> payload, ok |-> ok] >>

Outcome(cl, cs, resp) == [clients |-> cl, calls |-> cs, response |-> resp]

(***************************************************************************)
(* gmail_functions / send_email                                            *)
(***************************************************************************)
EMAIL == "tyron@theworkflowpro.com"

SendEmailArgs == [to : {"lead@example.com"}, is_html : BOOLEAN]

send_email_run(a, connOk, sendOk) ==
    IF ~connOk
    THEN Outcome(ClientHandle("gmail", FALSE), <<>>, Raised("CredentialsError"))
    ELSE Outcome(ClientHandle("gmail", TRUE),
                 Attempt("gmail.users.messages.send",
                         [userId |-> "me", From |-> EMAIL, To |-> a.to,
                          html |-> a.is_html], sendOk),
                 IF sendOk THEN Result([vendor |-> "sent_message"]) ELSE Raised("HttpError"))

(***************************************************************************)
(* gcal_functions                                                          *)
(***************************************************************************)
CalendarIds == {"primary", "team"}
EventIds == {"e1", "e2"}
EventDetails == {"details1"}

FreeBusyArgs == [calendar_ids : {None, <<"team">>, <<"team", "primary">>}]

get_free_busy_run(a, connOk, callOk) ==
    IF ~connOk
    THEN Outcome(ClientHandle("calendar", FALSE), <<>>, Raised("CredentialsError"))
    ELSE LET ids == IF a.calendar_ids = None THEN <<EMAIL>> ELSE a.calendar_ids
         IN  Outcome(ClientHandle("calendar", TRUE),
                     Attempt("calendar.freebusy.query", [items |-> ids], callOk),
                     IF callOk THEN Result([vendor |-> "freebusy"]) ELSE Raised("HttpError"))

CreateEventArgs == [event_details : EventDetails, calendar_id : CalendarIds]

create_calendar_event_run(a, connOk, callOk) ==
    IF ~connOk
    THEN Outcome(ClientHandle("calendar", FALSE), <<>>, Raised("CredentialsError"))
    ELSE Outcome(ClientHandle("calendar", TRUE),
                 Attempt("calendar.events.insert",
                         [calendarId |-> a.calendar_id, body |-> a.event_details],
                         callOk),
                 IF callOk THEN Result([vendor |-> "event"]) ELSE Raised("HttpError"))

UpdateEventArgs ==
    [event_id : EventIds, event_details : EventDetails, calendar_id : CalendarIds]

update_calendar_event_run(a, connOk, callOk) ==
    IF ~connOk
    THEN Outcome(ClientHandle("calendar", FALSE), <<>>, Raised("CredentialsError"))
    ELSE Outcome(ClientHandle("calendar", TRUE),
                 Attempt("calendar.events.update",
                         [calendarId |-> a.calendar_id, eventId |-> a.event_id,
                          body |-> a.event_details], callOk),
                 IF callOk THEN Result([vendor |-> "event"]) ELSE Raised("HttpError"))

DeleteEventArgs == [event_id : EventIds, calendar_id : CalendarIds]

DeleteOnPrimary(a, connOk, callOk) ==
    IF ~connOk
    THEN Outcome(ClientHandle("calendar", FALSE), <<>>, Raised("CredentialsError"))
    ELSE Outcome(ClientHandle("calendar", TRUE),
                 Attempt("calendar.events.delete",
                         [calendarId |-> "primary", eventId |-> a.event_id],
                         callOk),
                 IF callOk
                 THEN Result([status |-> "deleted", event_id |-> a.event_id])
                 ELSE Raised("HttpError"))

DeleteSwallowingFailure(a, connOk, callOk) ==
    IF ~connOk
    THEN Outcome(ClientHandle("calendar", FALSE), <<>>, Raised("CredentialsError"))
    ELSE Outcome(ClientHandle("calendar", TRUE),
                 Attempt("calendar.events.delete",
                         [calendarId |-> a.calendar_id, eventId |-> a.event_id],
                         callOk),
                 Result([status |-> "deleted", event_id |-> a.event_id]))

delete_calendar_event_run(a, connOk, callOk) ==
    IF ~connOk
    THEN Outcome(ClientHandle("calendar", FALSE), <<>>, Raised("CredentialsError"))
    ELSE Outcome(ClientHandle("calendar", TRUE),
                 Attempt("calendar.events.delete",
                         [calendarId |-> a.calendar_id, eventId |-> a.event_id],
                         callOk),
                 IF callOk
                 THEN Result([status |-> "deleted", event_id |-> a.event_id])
                 ELSE Raised("HttpError"))

(***************************************************************************)
(* salesforce_functions                                                    *)
(***************************************************************************)
MaxRecords == 2

ContactRecords == { [Id |-> "003A", FirstName |-> "Ann"],
                    [Id |-> "003B", FirstName |-> ""] }
LeadRecords == { [Id |-> "00QA", FirstName |-> "Lee"],
                 [Id |-> "00QB", FirstName |-> ""] }

RecordLists(recs) == UNION { [1..n -> recs] : n \in 0..MaxRecords }

\* what sf.query can do: raise, or return a result with these records
QueryOutcomes(recs) ==
    { [ok |-> FALSE, records |-> <<>>] } \cup
    { [ok |-> TRUE, records |-> rs] : rs \in RecordLists(recs) }

\* find_contact_or_lead's return value None
NotFound == [type |-> "None", id |-> "", first_name |-> ""]

SearchValues == { None, <<>>, <<" ">>, <<"a","@","x">>, <<" ","a","@","x","\t">> }

FindArgs == [email : SearchValues, phone : { None, <<"\t", " ">>, <<"5","5","5">> }]

ConditionsUnstripped(email, phone) ==
    (IF Truthy(email)
     THEN << [field |-> "Email", value |-> Strip(email)] >> ELSE <<>>)
    \o
    (IF Truthy(phone)
     THEN << [field |-> "Phone", value |-> Strip(phone)] >> ELSE <<>>)

\* the WHERE conditions: one per criterion that is not None, empty or blank
Conditions(email, phone) ==
    (IF Truthy(email) /\ Truthy(Strip(email))
     THEN << [field |-> "Email", value |-> Strip(email)] >> ELSE <<>>)
    \o
    (IF Truthy(phone) /\ Truthy(Strip(phone))
     THEN << [field |-> "Phone", value |-> Strip(phone)] >> ELSE <<>>)

FindLeadFirst(a, connOk, contacts, leads) ==
    LET conditions == Conditions(a.email, a.phone)
        q1 == Attempt("sf.query", [object |-> "Lead", where |-> conditions],
                      leads.ok)
        q2 == Attempt("sf.query", [object |-> "Contact", where |-> conditions],
                      contacts.ok)
    IN  IF conditions = <<>> THEN Outcome(<<>>, <<>>, Result(NotFound))
        ELSE IF ~connOk
        THEN Outcome(ClientHandle("salesforce", FALSE), <<>>,
                     Raised("SalesforceAuthenticationFailed"))
        ELSE IF ~leads.ok
        THEN Outcome(ClientHandle("salesforce", TRUE), q1, Raised("SalesforceError"))
        ELSE IF Len(leads.records) > 0
        THEN Outcome(ClientHandle("salesforce", TRUE), q1,
                     Result([type |-> "lead", id |-> leads.records[1].Id,
                             first_name |-> leads.records[1].FirstName]))
        ELSE IF ~contacts.ok
        THEN Outcome(ClientHandle("salesforce", TRUE), q1 \o q2,
                     Raised("SalesforceError"))
        ELSE IF Len(contacts.records) > 0
        THEN Outcome(ClientHandle("salesforce", TRUE), q1 \o q2,
                     Result([type |-> "contact", id |-> contacts.records[1].Id,
                             first_name |-> contacts.records[1].FirstName]))
        ELSE Outcome(ClientHandle("salesforce", TRUE), q1 \o q2, Result(NotFound))

find_contact_or_lead_run(a, connOk, contacts, leads) ==
    LET conditions == Conditions(a.email, a.phone)
        q1 == Attempt("sf.query", [object |-> "Contact", where |-> conditions],
                      contacts.ok)
        q2 == Attempt("sf.query", [object |-> "Lead", where |-> conditions],
                      leads.ok)
    IN  IF conditions = <<>> THEN Outcome(<<>>, <<>>, Result(NotFound))
        ELSE IF ~connOk
        THEN Outcome(ClientHandle("salesforce", FALSE), <<>>,
                     Raised("SalesforceAuthenticationFailed"))
        ELSE IF ~contacts.ok
        THEN Outcome(ClientHandle("salesforce", TRUE), q1, Raised("SalesforceError"))
        ELSE IF Len(contacts.records) > 0
        THEN Outcome(ClientHandle("salesforce", TRUE), q1,
                     Result([type |-> "contact", id |-> contacts.records[1].Id,
                             first_name |-> contacts.records[1].FirstName]))
        ELSE IF ~leads.ok
        THEN Outcome(ClientHandle("salesforce", TRUE), q1 \o q2,
                     Raised("SalesforceError"))
        ELSE IF Len(leads.records) > 0
        THEN Outcome(ClientHandle("salesforce", TRUE), q1 \o q2,
                     Result([type |-> "lead", id |-> leads.records[1].Id,
                             first_name |-> leads.records[1].FirstName]))
        ELSE Outcome(ClientHandle("salesforce", TRUE), q1 \o q2, Result(NotFound))

\* the tool: `result if result else {"error": "Not found"}`
find_salesforce_contact_or_lead_run(a, connOk, contacts, leads) ==
    LET o == find_contact_or_lead_run(a, connOk, contacts, leads)
    IN  IF o.response = Result(NotFound)
        THEN [o EXCEPT !.response = Result([error |-> "Not found"])]
        ELSE o

LeadKeys == {"LastName", "Company", "Email"}
LeadValues == {"", "null", "Acme"}

\* the fields mappings a caller can supply
LeadFields == UNION { [D -> LeadValues] : D \in SUBSET LeadKeys }

CreateLeadArgs == [fields : LeadFields]

LeadDefaultsForEmpty(fields) ==
    LET f1 == IF "LastName" \in DOMAIN fields /\ fields["LastName"] # ""
              THEN fields
              ELSE [k \in DOMAIN fields \cup {"LastName"} |->
                      IF k = "LastName" THEN "Unknown" ELSE fields[k]]
    IN  IF "Company" \in DOMAIN f1 THEN f1
        ELSE [k \in DOMAIN f1 \cup {"Company"} |->
                IF k = "Company" THEN "Unknown" ELSE f1[k]]

LeadDefaultsLastNameOnly(fields) ==
    IF "LastName" \in DOMAIN fields THEN fields
    ELSE [k \in DOMAIN fields \cup {"LastName"} |->
            IF k = "LastName" THEN "Unknown" ELSE fields[k]]

\* create_lead's two `if ... not in fields` assignments
LeadDefaults(fields) ==
    LET f1 == IF "LastName" \in DOMAIN fields THEN fields
              ELSE [k \in DOMAIN fields \cup {"LastName"} |->
                      IF k = "LastName" THEN "Unknown" ELSE fields[k]]
    IN  IF "Company" \in DOMAIN f1 THEN f1
        ELSE [k \in DOMAIN f1 \cup {"Company"} |->
                IF k = "Company" THEN "Unknown" ELSE f1[k]]

create_lead_run(a, connOk, callOk) ==
    LET fields == LeadDefaults(a.fields)
    IN  IF ~connOk
        THEN Outcome(ClientHandle("salesforce", FALSE), <<>>,
                     Raised("SalesforceAuthenticationFailed"))
        ELSE Outcome(ClientHandle("salesforce", TRUE),
                     Attempt("sf.Lead.create", fields, callOk),
                     IF callOk THEN Result([vendor |-> "lead_response"])
                     ELSE Raised("SalesforceError"))

LogTaskArgs == [person_id : {"00QA"}, direction : {"Inbound", "Outbound"}]

log_sfdc_task_run(a, connOk, callOk) ==
    IF ~connOk
    THEN Outcome(ClientHandle("salesforce", FALSE), <<>>,
                 Raised("SalesforceAuthenticationFailed"))
    ELSE Outcome(ClientHandle("salesforce", TRUE),
                 Attempt("sf.Task.create",
                         [WhoId |-> a.person_id, Status |-> "Completed",
                          Task_Direction__c |-> a.direction], callOk),
                 IF callOk THEN Result([success |-> TRUE, id |-> "00T1"])
                 ELSE Result([success |-> FALSE, error |-> "SalesforceError"]))

(***************************************************************************)
(* The server: one request at a time per worker                            *)
(*   idle -> gate -> dispatch -> done -> idle       (POST /)               *)
(*   idle -> done -> idle                           (GET /health, /info)   *)
(* last_gate is a history variable: how the gate decided the request       *)
(* answered last ("none" before the first one).  No action reads it.       *)
(***************************************************************************)
Workers == DOMAIN pc

\* mcp.run(..., path="/"): the MCP endpoint; the two custom routes
McpPath == "/"
NoRoute == "none"

InitOver(W) ==
    /\ api_key \in Secrets
    /\ pc = [r \in W |-> "idle"]
    /\ route = [r \in W |-> NoRoute]
    /\ auth = [r \in W |-> None]
    /\ presented = [r \in W |-> <<>>]
    /\ verdict = [r \in W |-> "pending"]
    /\ tool = [r \in W |-> NoHandler]
    /\ args = [r \in W |-> NoArgs]
    /\ handler = [r \in W |-> NoHandler]
    /\ clients = [r \in W |-> <<>>]
    /\ calls = [r \in W |-> <<>>]
    /\ response = [r \in W |-> NoResponse]
    /\ last_gate = "none"

Init == InitOver({"w1"})

\* a POST to the MCP endpoint arrives carrying Authorization value t
ReceiveFrom(r, pool) ==
    /\ pc[r] = "idle"
    /\ \E t \in pool : auth' = [auth EXCEPT ![r] = t]
    /\ pc' = [pc EXCEPT ![r] = "gate"]
    /\ route' = [route EXCEPT ![r] = McpPath]
    /\ UNCHANGED <<api_key, presented, verdict, tool, args, handler,
                   clients, calls, response, last_gate>>

Receive(r) == ReceiveFrom(r, Tokens)

\* FastMCP(auth=StaticApiKeyAuth(...)): verify_token decides before dispatch
VerifyToken(r) ==
    /\ pc[r] = "gate"
    /\ LET v == verify_token(auth[r], api_key)
       IN  /\ presented' = [presented EXCEPT ![r] = _normalize(auth[r])]
           /\ verdict' = [verdict EXCEPT ![r] = v]
           /\ pc' = [pc EXCEPT ![r] = IF v = "AccessToken" THEN "dispatch"
                                      ELSE "done"]
           /\ response' = [response EXCEPT ![r] =
                             IF v = "AccessToken" THEN NoResponse
                             ELSE IF v = "None"
                             THEN [status |-> "unauthenticated",
                                   value |-> [none |-> TRUE]]
                             ELSE Raised("TypeError")]
    /\ UNCHANGED <<api_key, route, auth, tool, args, handler, clients, calls,
                   last_gate>>

\* the handler h ran for the request (name, a) and left outcome o
Ran(r, name, a, h, o) ==
    /\ pc' = [pc EXCEPT ![r] = "done"]
    /\ tool' = [tool EXCEPT ![r] = name]
    /\ args' = [args EXCEPT ![r] = a]
    /\ handler' = [handler EXCEPT ![r] = h]
    /\ clients' = [clients EXCEPT ![r] = o.clients]
    /\ calls' = [calls EXCEPT ![r] = o.calls]
    /\ response' = [response EXCEPT ![r] = o.response]
    /\ UNCHANGED <<api_key, route, auth, presented, verdict, last_gate>>

\* tools/call with a name no @mcp.tool() registered
UnknownTool(r) ==
    /\ pc[r] = "dispatch"
    /\ \E name \in ToolNames :
         /\ Lookup(name) = NoHandler
         /\ Ran(r, name, NoArgs, NoHandler,
                Outcome(<<>>, <<>>,
                        [status |-> "unknown_tool", value |-> [name |-> name]]))

send_emailFrom(r, A) ==
    /\ pc[r] = "dispatch"
    /\ \E name \in ToolNames, a \in A, connOk, sendOk \in BOOLEAN :
         /\ Lookup(name) = "send_email"
         /\ Ran(r, name, a, "send_email", send_email_run(a, connOk, sendOk))

send_email(r) == send_emailFrom(r, SendEmailArgs)

get_calendar_free_busyFrom(r, A) ==
    /\ pc[r] = "dispatch"
    /\ \E name \in ToolNames, a \in A, connOk, callOk \in BOOLEAN :
         /\ Lookup(name) = "get_calendar_free_busy"
         /\ Ran(r, name, a, "get_calendar_free_busy",
                get_free_busy_run(a, connOk, callOk))

get_calendar_free_busy(r) == get_calendar_free_busyFrom(r, FreeBusyArgs)

create_calendar_eventFrom(r, A) ==
    /\ pc[r] = "dispatch"
    /\ \E name \in ToolNames, a \in A, connOk, callOk \in BOOLEAN :
         /\ Lookup(name) = "create_calendar_event"
         /\ Ran(r, name, a, "create_calendar_event",
                create_calendar_event_run(a, connOk, callOk))

create_calendar_event(r) == create_calendar_eventFrom(r, CreateEventArgs)

update_calendar_eventFrom(r, A) ==
    /\ pc[r] = "dispatch"
    /\ \E name \in ToolNames, a \in A, connOk, callOk \in BOOLEAN :
         /\ Lookup(name) = "update_calendar_event"
         /\ Ran(r, name, a, "update_calendar_event",
                update_calendar_event_run(a, connOk, callOk))

update_calendar_event(r) == update_calendar_eventFrom(r, UpdateEventArgs)

delete_calendar_eventFrom(r, A) ==
    /\ pc[r] = "dispatch"
    /\ \E name \in ToolNames, a \in A, connOk, callOk \in BOOLEAN :
         /\ Lookup(name) = "delete_calendar_event"
         /\ Ran(r, name, a, "delete_calendar_event",
                delete_calendar_event_run(a, connOk, callOk))

delete_calendar_event(r) == delete_calendar_eventFrom(r, DeleteEventArgs)

find_salesforce_contact_or_leadFrom(r, A) ==
    /\ pc[r] = "dispatch"
    /\ \E name \in ToolNames, a \in A, connOk \in BOOLEAN,
          contacts \in QueryOutcomes(ContactRecords),
          leads \in QueryOutcomes(LeadRecords) :
         /\ Lookup(name) = "find_salesforce_contact_or_lead"
         /\ Ran(r, name, a, "find_salesforce_contact_or_lead",
                find_salesforce_contact_or_lead_run(a, connOk, contacts, leads))

find_salesforce_contact_or_lead(r) == find_salesforce_contact_or_leadFrom(r, FindArgs)

create_salesforce_leadFrom(r, A) ==
    /\ pc[r] = "dispatch"
    /\ \E name \in ToolNames, a \in A, connOk, callOk \in BOOLEAN :
         /\ Lookup(name) = "create_salesforce_lead"
         /\ Ran(r, name, a, "create_salesforce_lead",
                create_lead_run(a, connOk, callOk))

create_salesforce_lead(r) == create_salesforce_leadFrom(r, CreateLeadArgs)

log_salesforce_taskFrom(r, A) ==
    /\ pc[r] = "dispatch"
    /\ \E name \in ToolNames, a \in A, connOk, callOk \in BOOLEAN :
         /\ Lookup(name) = "log_salesforce_task"
         /\ Ran(r, name, a, "log_salesforce_task",
                log_sfdc_task_run(a, connOk, callOk))

log_salesforce_task(r) == log_salesforce_taskFrom(r, LogTaskArgs)

\* a custom route answered with `resp`: FastMCP serves custom routes without
\* consulting the auth provider
CustomRoute(r, path, h, resp, pool) ==
    /\ pc[r] = "idle"
    /\ \E t \in pool : auth' = [auth EXCEPT ![r] = t]
    /\ pc' = [pc EXCEPT ![r] = "done"]
    /\ route' = [route EXCEPT ![r] = path]
    /\ handler' = [handler EXCEPT ![r] = h]
    /\ response' = [response EXCEPT ![r] = resp]
    /\ UNCHANGED <<api_key, presented, verdict, tool, args, clients, calls,
                   last_gate>>

InfoText == "RevOps MCP Server - MCP endpoint is at / (POST/SSE)."

\* PlainTextResponse(...)
mcp_info_response == [status |-> "200", value |-> [text |-> InfoText]]

\* JSONResponse({"status": "ok"})
health_response == [status |-> "200", value |-> [status |-> "ok"]]

mcp_infoFrom(r, pool) ==
    CustomRoute(r, "/info", "mcp_info", mcp_info_response, pool)

mcp_info(r) == mcp_infoFrom(r, Tokens)

HealthBehindGate(r, pool) ==
    /\ pc[r] = "idle"
    /\ \E t \in pool :
         /\ auth' = [auth EXCEPT ![r] = t]
         /\ response' = [response EXCEPT ![r] =
                           IF verify_token(t, api_key) = "AccessToken"
                           THEN health_response
                           ELSE [status |-> "unauthenticated",
                                 value |-> [none |-> TRUE]]]
    /\ pc' = [pc EXCEPT ![r] = "done"]
    /\ route' = [route EXCEPT ![r] = "/health"]
    /\ handler' = [handler EXCEPT ![r] = "health"]
    /\ UNCHANGED <<api_key, presented, verdict, tool, args, clients, calls,
                   last_gate>>

healthFrom(r, pool) ==
    CustomRoute(r, "/health", "health", health_response, pool)

health(r) == healthFrom(r, Tokens)

\* the response is sent; nothing of the request is kept
Respond(r) ==
    /\ pc[r] = "done"
    /\ pc' = [pc EXCEPT ![r] = "idle"]
    /\ route' = [route EXCEPT ![r] = NoRoute]
    /\ auth' = [auth EXCEPT ![r] = None]
    /\ presented' = [presented EXCEPT ![r] = <<>>]
    /\ verdict' = [verdict EXCEPT ![r] = "pending"]
    /\ tool' = [tool EXCEPT ![r] = NoHandler]
    /\ args' = [args EXCEPT ![r] = NoArgs]
    /\ handler' = [handler EXCEPT ![r] = NoHandler]
    /\ clients' = [clients EXCEPT ![r] = <<>>]
    /\ calls' = [calls EXCEPT ![r] = <<>>]
    /\ response' = [response EXCEPT ![r] = NoResponse]
    /\ last_gate' = IF verdict[r] = "pending" THEN last_gate
                    ELSE IF verdict[r] = "AccessToken" THEN "admitted"
                    ELSE "refused"
    /\ UNCHANGED api_key

Next ==
    \/ \E r \in Workers : Receive(r)
    \/ \E r \in Workers : VerifyToken(r)
    \/ \E r \in Workers : UnknownTool(r)
    \/ \E r \in Workers : send_email(r)
    \/ \E r \in Workers : get_calendar_free_busy(r)
    \/ \E r \in Workers : create_calendar_event(r)
    \/ \E r \in Workers : update_calendar_event(r)
    \/ \E r \in Workers : delete_calendar_event(r)
    \/ \E r \in Workers : find_salesforce_contact_or_lead(r)
    \/ \E r \in Workers : create_salesforce_lead(r)
    \/ \E r \in Workers : log_salesforce_task(r)
    \/ \E r \in Workers : mcp_info(r)
    \/ \E r \in Workers : health(r)
    \/ \E r \in Workers : Respond(r)

Spec == Init /\ [][Next]_vars

(***************************************************************************)
(* Two requests in service at once, over fewer inputs                      *)
(***************************************************************************)
ConcTokens == { None, wAbc, wBearer \o <<" ">> \o wAbc, wDef }

ConcFindArgs == { a \in FindArgs : /\ a.email \in {None, <<"a","@","x">>}
                                   /\ a.phone = None }

ConcCreateLeadArgs ==
    { a \in CreateLeadArgs : /\ DOMAIN a.fields \in { {}, {"Email"} }
                             /\ \A k \in DOMAIN a.fields : a.fields[k] = "Acme" }

InitConc == InitOver({"w1", "w2"})

NextConc ==
    \/ \E r \in Workers : ReceiveFrom(r, ConcTokens)
    \/ \E r \in Workers : VerifyToken(r)
    \/ \E r \in Workers : UnknownTool(r)
    \/ \E r \in Workers : send_emailFrom(r, SendEmailArgs)
    \/ \E r \in Workers : get_calendar_free_busyFrom(r, FreeBusyArgs)
    \/ \E r \in Workers : create_calendar_eventFrom(r, CreateEventArgs)
    \/ \E r \in Workers : update_calendar_eventFrom(r, UpdateEventArgs)
    \/ \E r \in Workers : delete_calendar_eventFrom(r, DeleteEventArgs)
    \/ \E r \in Workers : find_salesforce_contact_or_leadFrom(r, ConcFindArgs)
    \/ \E r \in Workers : create_salesforce_leadFrom(r, ConcCreateLeadArgs)
    \/ \E r \in Workers : log_salesforce_taskFrom(r, LogTaskArgs)
    \/ \E r \in Workers : mcp_infoFrom(r, ConcTokens)
    \/ \E r \in Workers : healthFrom(r, ConcTokens)
    \/ \E r \in Workers : Respond(r)

SpecConc == InitConc /\ [][NextConc]_vars

(***************************************************************************)
(* Vocabulary of the properties                                            *)
(***************************************************************************)
\* the request of worker r has been through the gate
Gated(r) == verdict[r] # "pending"

\* the spellings of the three schemes the inputs use
SchemeSpellings == {wBearer, wTOKEN, wApiKey}

NumWords(t) == IF t = None THEN 0 ELSE Len(Split(t))

FirstWordIsScheme(t) ==
    /\ NumWords(t) >= 1
    /\ Lower(Split(t)[1]) \in Schemes

HasWhitespace(s) == \E i \in 1..Len(s) : s[i] \in Whitespace

\* None, empty or made of blanks only
Blank(s) == s = None \/ \A i \in 1..Len(s) : s[i] \in Whitespace

\* something the vendor side refused during the invocation of worker r
ClientFailed(r) == \E i \in 1..Len(clients[r]) : ~clients[r][i].ok
CallFailed(r) == \E i \in 1..Len(calls[r]) : ~calls[r][i].ok

(***************************************************************************)
(* C1: verify_token returns an AccessToken iff the candidate               *)
(* _normalize(T) is non-empty, the secret is non-empty and the two are     *)
(* equal.  The code raises TypeError from secrets.compare_digest when the  *)
(* equal candidate and secret hold a non-ASCII character.                  *)
(***************************************************************************)
C1_AdmitsIffEqual ==
    \A r \in Workers :
        Gated(r) =>
            ( verdict[r] = "AccessToken"
              <=> /\ _normalize(auth[r]) # <<>>
                  /\ api_key # <<>>
                  /\ _normalize(auth[r]) = api_key )

(***************************************************************************)
(* C2: "<scheme> k" (scheme in any case, any blanks around and between)    *)
(* and the bare "k" both normalize to k; a value whose first word is no    *)
(* recognized scheme normalizes to the whole trimmed value.                *)
(***************************************************************************)
C2_PrefixStripping ==
    \A r \in Workers :
        Gated(r) =>
            /\ \A k \in Words, lead \in Pads, trail \in Pads :
                 /\ auth[r] = lead \o k \o trail => presented[r] = k
                 /\ \A sch \in SchemeSpellings, gap \in Gaps :
                      auth[r] = lead \o sch \o gap \o k \o trail
                          => presented[r] = k
            /\ (auth[r] # None /\ ~FirstWordIsScheme(auth[r]))
                   => presented[r] = Strip(auth[r])
            /\ auth[r] = None => presented[r] = <<>>

C2_Witness ==
    \E r \in Workers :
        /\ Gated(r)
        /\ auth[r] = <<" ">> \o wTOKEN \o <<"\t", " ">> \o wAbc \o <<" ">>
        /\ presented[r] = wAbc

(***************************************************************************)
(* C3 as stated: for every secret, a value that is neither one word nor    *)
(* "<scheme> <word>" is rejected.                                          *)
(***************************************************************************)
C3_MultiWordRejected ==
    \A r \in Workers :
        ( /\ Gated(r)
          /\ NumWords(auth[r]) # 1
          /\ ~(NumWords(auth[r]) = 2 /\ FirstWordIsScheme(auth[r])) )
            => verdict[r] # "AccessToken"

(***************************************************************************)
(* C3 amended: for every secret that holds no whitespace, a value that is  *)
(* neither one word nor "<scheme> <word>" is never admitted.               *)
(***************************************************************************)
C3_MultiWordRejectedForOneWordSecret ==
    \A r \in Workers :
        ( /\ Gated(r)
          /\ ~HasWhitespace(api_key)
          /\ NumWords(auth[r]) # 1
          /\ ~(NumWords(auth[r]) = 2 /\ FirstWordIsScheme(auth[r])) )
            => verdict[r] # "AccessToken"

C3_Witness ==
    \E r \in Workers :
        /\ api_key = wAbc
        /\ auth[r] = wBearer \o <<" ">> \o wAbc \o <<" ">> \o wDef
        /\ verdict[r] = "None"
        /\ response[r].status = "unauthenticated"

(***************************************************************************)
(* C4: a request whose Authorization value is missing, empty or does not   *)
(* match the secret is rejected with an unauthenticated error before       *)
(* dispatch: no handler runs, no client handle is built, no vendor call    *)
(* is made.                                                                *)
(***************************************************************************)
C4_RejectedBeforeDispatch ==
    \A r \in Workers :
        ( /\ pc[r] = "done"
          /\ route[r] = McpPath
          /\ \/ auth[r] = None
             \/ auth[r] = <<>>
             \/ _normalize(auth[r]) # api_key )
            => /\ response[r].status = "unauthenticated"
               /\ handler[r] = NoHandler
               /\ clients[r] = <<>>
               /\ calls[r] = <<>>

(***************************************************************************)
(* C5: an authenticated tools/call whose name is not one of the eight      *)
(* registered tools gets the unknown-operation error; no handler runs in   *)
(* its place and no vendor call is made.                                   *)
(***************************************************************************)
C5_UnknownOperation ==
    \A r \in Workers :
        ( /\ pc[r] = "done"
          /\ verdict[r] = "AccessToken"
          /\ tool[r] \notin Registry )
            => /\ response[r].status = "unknown_tool"
               /\ handler[r] = NoHandler
               /\ clients[r] = <<>>
               /\ calls[r] = <<>>

C5_Witness ==
    \E r \in Workers :
        /\ pc[r] = "done"
        /\ verdict[r] = "AccessToken"
        /\ tool[r] = "send_mail"
        /\ response[r].status = "unknown_tool"

(***************************************************************************)
(* C6: log_sfdc_task never raises: it returns {success: True, id} when     *)
(* the Task creation succeeds and {success: False, error} when the vendor  *)
(* fails, a failure to establish the Salesforce connection included.       *)
(***************************************************************************)
C6_LogTaskNeverRaises ==
    \A r \in Workers :
        ( pc[r] = "done" /\ handler[r] = "log_salesforce_task" )
            => /\ response[r].status = "result"
               /\ response[r].value.success = ~(ClientFailed(r) \/ CallFailed(r))

(***************************************************************************)
(* C7: with email and phone each None, empty or blank,                     *)
(* find_contact_or_lead returns None without building a Salesforce         *)
(* connection or issuing a query, whatever the vendor would have answered, *)
(* and the tool returns {"error": "Not found"}.                            *)
(***************************************************************************)
C7_BlankCriteriaNotFound ==
    \A r \in Workers :
        ( /\ pc[r] = "done"
          /\ handler[r] = "find_salesforce_contact_or_lead"
          /\ Blank(args[r].email)
          /\ Blank(args[r].phone) )
            => /\ clients[r] = <<>>
               /\ calls[r] = <<>>
               /\ response[r] = Result([error |-> "Not found"])
               /\ \A connOk \in BOOLEAN,
                     contacts \in QueryOutcomes(ContactRecords),
                     leads \in QueryOutcomes(LeadRecords) :
                    find_contact_or_lead_run(args[r], connOk, contacts, leads)
                        = Outcome(<<>>, <<>>, Result(NotFound))

C7_Witness ==
    \E r \in Workers :
        /\ pc[r] = "done"
        /\ handler[r] = "find_salesforce_contact_or_lead"
        /\ args[r].email = <<" ">>
        /\ args[r].phone = <<"\t", " ">>
        /\ response[r] = Result([error |-> "Not found"])

(***************************************************************************)
(* C8: the mapping create_lead sends to the Lead-create call has           *)
(* LastName = "Unknown" when LastName was absent and Company = "Unknown"   *)
(* when Company was absent; create_lead({}) sends exactly those two.       *)
(***************************************************************************)
C8_LeadDefaults ==
    \A r \in Workers :
        \A i \in 1..Len(calls[r]) :
            calls[r][i].op = "sf.Lead.create" =>
                LET given == args[r].fields
                    sent == calls[r][i].payload
                IN  /\ "LastName" \notin DOMAIN given
                        => ("LastName" \in DOMAIN sent
                            /\ sent["LastName"] = "Unknown")
                    /\ "Company" \notin DOMAIN given
                        => ("Company" \in DOMAIN sent
                            /\ sent["Company"] = "Unknown")
                    /\ DOMAIN given = {}
                        => /\ DOMAIN sent = {"LastName", "Company"}
                           /\ sent["LastName"] = "Unknown"
                           /\ sent["Company"] = "Unknown"

C8_Witness ==
    \E r \in Workers :
        /\ handler[r] = "create_salesforce_lead"
        /\ DOMAIN args[r].fields = {}
        /\ Len(calls[r]) = 1
        /\ calls[r][1].op = "sf.Lead.create"
        /\ DOMAIN calls[r][1].payload = {"LastName", "Company"}

(***************************************************************************)
(* C9: in every handler but log_salesforce_task a vendor failure reaches   *)
(* the caller as a failure, never as a result; log_salesforce_task is the  *)
(* only handler that turns a failed vendor call into {success: False}.     *)
(***************************************************************************)
C9_VendorFailureSurfaces ==
    \A r \in Workers :
        ( pc[r] = "done" /\ handler[r] # NoHandler
          /\ (ClientFailed(r) \/ CallFailed(r)) )
            => /\ handler[r] # "log_salesforce_task"
                   => response[r].status = "raised"
               /\ response[r].status = "result"
                   => /\ handler[r] = "log_salesforce_task"
                      /\ CallFailed(r)
                      /\ response[r].value.success = FALSE

C9_Witness ==
    \E r \in Workers :
        /\ pc[r] = "done"
        /\ handler[r] = "delete_calendar_event"
        /\ CallFailed(r)
        /\ response[r].status = "raised"

(***************************************************************************)
(* C10: within one invocation each vendor operation is attempted at most   *)
(* once (for the lookup: at most one Contact query and one Lead query),    *)
(* and nothing is issued after a call that failed.                         *)
(***************************************************************************)
C10_NoRetries ==
    \A r \in Workers :
        /\ \A i, j \in 1..Len(calls[r]) :
             (i # j /\ calls[r][i].op = calls[r][j].op)
                 => /\ calls[r][i].op = "sf.query"
                    /\ calls[r][i].payload.object # calls[r][j].payload.object
        /\ \A i \in 1..Len(calls[r]) : ~calls[r][i].ok => i = Len(calls[r])

C10_Witness ==
    \E r \in Workers :
        /\ pc[r] = "done"
        /\ handler[r] = "create_salesforce_lead"
        /\ Len(calls[r]) = 1
        /\ ~calls[r][1].ok
        /\ response[r].status = "raised"

SoloOutcomes(h, a) ==
    CASE h = "send_email" ->
           { send_email_run(a, c, o) : c \in BOOLEAN, o \in BOOLEAN }
      [] h = "get_calendar_free_busy" ->
           { get_free_busy_run(a, c, o) : c \in BOOLEAN, o \in BOOLEAN }
      [] h = "create_calendar_event" ->
           { create_calendar_event_run(a, c, o) : c \in BOOLEAN, o \in BOOLEAN }
      [] h = "update_calendar_event" ->
           { update_calendar_event_run(a, c, o) : c \in BOOLEAN, o \in BOOLEAN }
      [] h = "delete_calendar_event" ->
           { delete_calendar_event_run(a, c, o) : c \in BOOLEAN, o \in BOOLEAN }
      [] h = "find_salesforce_contact_or_lead" ->
           { find_salesforce_contact_or_lead_run(a, c, x, y) :
               c \in BOOLEAN, x \in QueryOutcomes(ContactRecords),
               y \in QueryOutcomes(LeadRecords) }
      [] h = "create_salesforce_lead" ->
           { create_lead_run(a, c, o) : c \in BOOLEAN, o \in BOOLEAN }
      [] h = "log_salesforce_task" ->
           { log_sfdc_task_run(a, c, o) : c \in BOOLEAN, o \in BOOLEAN }

\* the data of request q is left as it is by the step
Untouched(q) ==
    /\ pc'[q] = pc[q]
    /\ route'[q] = route[q]
    /\ auth'[q] = auth[q]
    /\ presented'[q] = presented[q]
    /\ verdict'[q] = verdict[q]
    /\ tool'[q] = tool[q]
    /\ args'[q] = args[q]
    /\ handler'[q] = handler[q]
    /\ clients'[q] = clients[q]
    /\ calls'[q] = calls[q]
    /\ response'[q] = response[q]

C12_RequestsIndependent ==
    /\ [] \A r \in Workers :
            /\ Gated(r) => verdict[r] = verify_token(auth[r], api_key)
            /\ (pc[r] = "done" /\ handler[r] \in Registry)
                 => /\ Outcome(clients[r], calls[r], response[r])
                          \in SoloOutcomes(handler[r], args[r])
                    /\ calls[r] # <<>>
                          => (Len(clients[r]) = 1 /\ clients[r][1].ok)
    /\ [][ /\ api_key' = api_key
           /\ \E r \in Workers : \A q \in Workers \ {r} : Untouched(q)
       ]_vars

C12_Witness ==
    /\ pc["w1"] = "done"
    /\ handler["w1"] = "create_salesforce_lead"
    /\ Len(clients["w1"]) = 1
    /\ Len(calls["w1"]) = 1
    /\ pc["w2"] = "done"
    /\ handler["w2"] = "log_salesforce_task"
    /\ Len(clients["w2"]) = 1
    /\ response["w2"].status = "raised"

(***************************************************************************)
(* C13: after any earlier admitted or refused request, a request is        *)
(* admitted iff its own Authorization value normalizes to the (non-empty)  *)
(* configured secret.  The code refuses the matching value when it holds   *)
(* a non-ASCII character (the TypeError of C1), whatever came before.      *)
(***************************************************************************)
C13_AdmittedIffOwnTokenMatches ==
    \A r \in Workers :
        (Gated(r) /\ last_gate # "none")
            => ( verdict[r] = "AccessToken"
                 <=> (Truthy(api_key) /\ _normalize(auth[r]) = api_key) )

(***************************************************************************)
(* C13, the part the code keeps: the verdict on a request is a function    *)
(* of its own Authorization value and the secret, whatever the gate        *)
(* decided before.                                                         *)
(***************************************************************************)
C13_VerdictIgnoresHistory ==
    \A r \in Workers :
        Gated(r) =>
            /\ verdict[r] = verify_token(auth[r], api_key)
            /\ (last_gate = "admitted" /\ _normalize(auth[r]) # api_key)
                   => verdict[r] # "AccessToken"
            /\ (last_gate = "refused" /\ IsAscii(api_key) /\ Truthy(api_key)
                /\ _normalize(auth[r]) = api_key)
                   => verdict[r] = "AccessToken"

(***************************************************************************)
(* C14: with a non-blank criterion, find_contact_or_lead queries Contact   *)
(* first and Lead only when the Contact query gave no record; the result   *)
(* is the first Contact record whenever there is one (even if a Lead       *)
(* matches too), the first Lead record iff there is no Contact record and  *)
(* there is a Lead record, and None -- {"error": "Not found"} from the     *)
(* tool, a result and no exception -- iff both queries are empty.          *)
(***************************************************************************)
\* the query results the vendor can return when it does not fail
Answers(recs) == { x \in QueryOutcomes(recs) : x.ok }

C14_ContactBeforeLead ==
    \A r \in Workers :
        ( /\ pc[r] = "done"
          /\ handler[r] = "find_salesforce_contact_or_lead"
          /\ ~(Blank(args[r].email) /\ Blank(args[r].phone)) )
            => /\ Len(calls[r]) >= 1 => calls[r][1].payload.object = "Contact"
               /\ Len(calls[r]) >= 2
                    => /\ Len(calls[r]) = 2
                       /\ calls[r][1].ok
                       /\ calls[r][2].payload.object = "Lead"
               /\ response[r].status = "result"
                    => \/ /\ response[r].value = [error |-> "Not found"]
                          /\ Len(calls[r]) = 2
                       \/ Len(calls[r]) = IF response[r].value.type = "contact"
                                          THEN 1 ELSE 2
               /\ \A contacts \in Answers(ContactRecords),
                     leads \in Answers(LeadRecords) :
                    LET fn == find_contact_or_lead_run(args[r], TRUE,
                                                       contacts, leads).response
                        tl == find_salesforce_contact_or_lead_run(
                                  args[r], TRUE, contacts, leads).response
                        c == contacts.records
                        l == leads.records
                    IN  /\ fn.status = "result" /\ tl.status = "result"
                        /\ c # <<>>
                             => fn = Result([type |-> "contact", id |-> c[1].Id,
                                             first_name |-> c[1].FirstName])
                        /\ fn.value.type = "lead" <=> (c = <<>> /\ l # <<>>)
                        /\ fn.value.type = "lead"
                             => fn.value.id = l[1].Id
                        /\ fn = Result(NotFound) <=> (c = <<>> /\ l = <<>>)
                        /\ tl = IF c = <<>> /\ l = <<>>
                                THEN Result([error |-> "Not found"]) ELSE fn

C14_Witness ==
    \E r \in Workers :
        /\ pc[r] = "done"
        /\ handler[r] = "find_salesforce_contact_or_lead"
        /\ args[r].email = <<" ","a","@","x","\t">>
        /\ Len(calls[r]) = 2
        /\ calls[r][1].payload.object = "Contact"
        /\ calls[r][2].payload.object = "Lead"
        /\ response[r] = Result([type |-> "lead", id |-> "00QB",
                                 first_name |-> ""])

C16_NormalizeIdempotent ==
    \A r \in Workers :
        Gated(r) =>
            /\ presented[r] = _normalize(auth[r])
            /\ _normalize(presented[r]) = presented[r]
            /\ verify_token(presented[r], api_key) = verdict[r]

C16_Witness ==
    \E r \in Workers :
        /\ Gated(r)
        /\ api_key = wAbc
        /\ auth[r] = wTOKEN \o <<" ">> \o wAbc
        /\ presented[r] = wAbc
        /\ _normalize(presented[r]) = wAbc
        /\ verdict[r] = "AccessToken"

(***************************************************************************)
(* C17: the candidate _normalize produces never starts or ends with        *)
(* whitespace and is never a two-word string whose first word is a scheme; *)
(* the token recorded in an AccessToken (the candidate) has that form and  *)
(* equals the configured secret.                                           *)
(***************************************************************************)
Trimmed(s) == s = <<>> \/ (s[1] \notin Whitespace /\ s[Len(s)] \notin Whitespace)

C17_CandidateForm ==
    \A r \in Workers :
        Gated(r) =>
            /\ Trimmed(presented[r])
            /\ ~(NumWords(presented[r]) = 2 /\ FirstWordIsScheme(presented[r]))
            /\ verdict[r] = "AccessToken" => presented[r] = api_key

C17_Witness ==
    \E r \in Workers :
        /\ Gated(r)
        /\ auth[r] = <<" ">> \o wTOKEN \o <<"\t", " ">> \o wAbc \o <<" ">>
        /\ presented[r] = wAbc
        /\ verdict[r] = "AccessToken"

(***************************************************************************)
(* C18: the mapping create_lead sends to the vendor is the supplied one    *)
(* with at most LastName and Company added: every supplied key keeps its   *)
(* value, an empty or null LastName or Company included, and no other key  *)
(* is added or removed.                                                    *)
(***************************************************************************)
C18_LeadFieldsFrame ==
    \A r \in Workers :
        \A i \in 1..Len(calls[r]) :
            calls[r][i].op = "sf.Lead.create" =>
                LET given == args[r].fields
                    sent == calls[r][i].payload
                IN  /\ DOMAIN sent = DOMAIN given \cup {"LastName", "Company"}
                    /\ \A k \in DOMAIN given : sent[k] = given[k]

C18_Witness ==
    \E r \in Workers :
        /\ pc[r] = "done"
        /\ handler[r] = "create_salesforce_lead"
        /\ DOMAIN args[r].fields = {"LastName", "Email"}
        /\ args[r].fields["LastName"] = ""
        /\ Len(calls[r]) = 1
        /\ calls[r][1].op = "sf.Lead.create"
        /\ DOMAIN calls[r][1].payload = {"LastName", "Email", "Company"}
        /\ calls[r][1].payload["LastName"] = ""
        /\ calls[r][1].payload["Company"] = "Unknown"

=============================================================================
